---- MODULE Spec2Model ----
(***************************************************************************)
(* Model of scalapy.lowlevel: the argument-expansion layer in front of the *)
(* f2py-wrapped ScaLAPACK routines (src/scalapy/lowlevel/__init__.py).     *)
(*                                                                         *)
(* A Python value is a record [kind, v, s, items]:                         *)
(*   int               v = the number                                      *)
(*   str               s = the code points of the text                     *)
(*   bytes             s = the bytes                                       *)
(*   ndarray           v = the identity of the buffer (negative: owned by  *)
(*                     the caller, positive: allocated by np.zeros here)   *)
(*   desc              v = the matrix whose descriptor block it is         *)
(*   DistributedMatrix v = the matrix                                      *)
(*   WorkArray         v = the WorkArray object                            *)
(*   list              items = the elements                                *)
(*   None                                                                  *)
(***************************************************************************)
EXTENDS Integers, Sequences, FiniteSets, TLC

\* ------------------------------------------------------------------ bounds
MaxArgs == 2        \* longest logical argument list a caller passes
MaxTypes == 2       \* most typecodes over the WorkArrays a caller makes
MaxWLen == 1        \* largest work length the native routine reports
MaxAlloc == 4       \* buffers np.zeros may allocate in one behaviour

\* ------------------------------------------------------------- Python values
Val(k, n, cs, xs) == [kind |-> k, v |-> n, s |-> cs, items |-> xs]
PyInt(n) == Val("int", n, <<>>, <<>>)
PyStr(cs) == Val("str", 0, cs, <<>>)
PyBytes(bs) == Val("bytes", 0, bs, <<>>)
NdArray(id) == Val("ndarray", id, <<>>, <<>>)
Desc(d) == Val("desc", d, <<>>, <<>>)
DistributedMatrix(d) == Val("DistributedMatrix", d, <<>>, <<>>)
WorkArrayRef(w) == Val("WorkArray", w, <<>>, <<>>)
PyList(xs) == Val("list", 0, <<>>, xs)
PyNone == Val("None", 0, <<>>, <<>>)

\* The sequence e(1), ..., e(n).
Tabulate(n, e(_)) == IF n = 0 THEN <<>> ELSE [i \in 1..n |-> e(i)]

\* ------------------------------------------------ what a caller may pass in
WorkIds == {1, 2}                       \* the WorkArray objects a caller makes
DMIds == {1}                            \* the distributed matrices
TypeCodes == {"D", "Z"}                 \* typecodes the modelled callers use
InfoCodes == {0, 1}                     \* status codes a native routine returns
WLens == 0..MaxWLen                     \* lengths a work query reports
TypeLists == UNION {[1..n -> TypeCodes] : n \in 0..MaxTypes}
Texts == {PyStr(<<86>>), PyStr(<<233>>)}    \* 'V' and a non-ASCII character
LogicalArgs ==
    {PyInt(3)} \cup Texts
        \cup {DistributedMatrix(d) : d \in DMIds} \cup {WorkArrayRef(w) : w \in WorkIds}
ArgLists == UNION {[1..n -> LogicalArgs] : n \in 0..MaxArgs}

\* DistributedMatrix._local_array and DistributedMatrix.desc (scalapy.core)
local_array(d) == NdArray(0 - (1 + d))
desc(d) == Desc(d)

VARIABLES
    expand_args,    \* the module-level toggle
    work,           \* the WorkArray objects: alive, types, np_types, query_arrays
    arrays,         \* the live buffers np.zeros allocated: dtype, len, element 0
    next_id,        \* identity of the next buffer np.zeros allocates
    pc,             \* the caller's position: idle, inside a native call, or done
    frame,          \* locals of the call in flight: exp_args, pending flat list
    inv,            \* record of the wrapper call in flight or just ended (pc = "done")
    op              \* record of the WorkArray method call just made (pc = "done")

vars == <<expand_args, work, arrays, next_id, pc, frame, inv, op>>

\* ----------------------------------------------------- pure transformations
\* util.flatten: every element of a nested list, depth first, left to right.
RECURSIVE flatten(_)
flatten(x) ==
    IF x = <<>> THEN <<>>
    ELSE LET el == Head(x)
         IN  (IF el.kind = "list" THEN flatten(el.items) ELSE <<el>>) \o flatten(Tail(x))

\* faulty variant: the descriptor put before the origin indices
_expand_dm_desc_first(args) ==
    Tabulate(Len(args), LAMBDA i :
        IF args[i].kind = "DistributedMatrix"
        THEN PyList(<<local_array(args[i].v), desc(args[i].v), PyInt(1), PyInt(1)>>)
        ELSE args[i])

\* _expand_dm: a DistributedMatrix becomes the list [local_array, 1, 1, desc].
_expand_dm(args) ==
    Tabulate(Len(args), LAMBDA i :
        IF args[i].kind = "DistributedMatrix"
        THEN PyList(<<local_array(args[i].v), PyInt(1), PyInt(1), desc(args[i].v)>>)
        ELSE args[i])

\* str.encode('ascii') succeeds exactly on code points below 128 ...
ascii_encodable(cs) == \A i \in 1..Len(cs) : cs[i] < 128
\* ... and gives one byte per code point.
encode_ascii(cs) == PyBytes(cs)

\* faulty variant: text left as it is
_fix_string_unencoded(arg) == arg

\* _encode_strings._fix_string
_fix_string(arg) == IF arg.kind = "str" THEN encode_ascii(arg.s) ELSE arg

\* _encode_strings raises UnicodeEncodeError when some str does not encode
_encode_strings_raises(args) ==
    \E i \in 1..Len(args) : args[i].kind = "str" /\ ~ascii_encodable(args[i].s)
_encode_strings(args) == Tabulate(Len(args), LAMBDA i : _fix_string(args[i]))

\* faulty variant: a work query is made for every call
need_workquery_always(args) == TRUE

\* _call_routine, line 185
need_workquery(args) == \E i \in 1..Len(args) : args[i].kind = "WorkArray"

\* ------------------------------------------------------------- the WorkArray
\* WorkArray.__init__._typemap
_typemap ==
    [S |-> "float32", C |-> "complex64", D |-> "float64", Z |-> "complex128", I |-> "int32"]

\* faulty variant: every buffer is allocated with length 1
np_zeros_len1(len, dtype) == [dtype |-> dtype, len |-> 1, re |-> 0, im |-> 0]

\* np.zeros(len, dtype=dtype): the buffer, with its element 0 as (re, im)
np_zeros(len, dtype) == [dtype |-> dtype, len |-> len, re |-> 0, im |-> 0]

\* the class attribute query_arrays = None, and a list of buffer identities
Unqueried == [isNone |-> TRUE, ids |-> <<>>]
Queried(ids) == [isNone |-> FALSE, ids |-> ids]

\* a name no WorkArray is bound to yet
NoObject == [alive |-> FALSE, types |-> <<>>, np_types |-> <<>>, query_arrays |-> Unqueried]

\* WorkArray.__init__
WorkArray(types) ==
    [alive |-> TRUE, types |-> types,
     np_types |-> Tabulate(Len(types), LAMBDA i : _typemap[types[i]]),
     query_arrays |-> Unqueried]

\* The mutable store the expansion works on is st = [work, arrays, next_id].
\* faulty variant: the imaginary part is read
wlen_of_imag(elem) == elem.im

\* int(np.real(arr[0]))
wlen_of(elem) == elem.re

\* faulty variant: to_query keeps the buffers in a local and stores nothing
stored_query_arrays_not(old, ids) == old

\* faulty variant: an object queried before keeps its earlier query buffers
stored_query_arrays_first(old, ids) == IF old.isNone THEN Queried(ids) ELSE old

\* self.query_arrays after to_query stored the fresh buffers
stored_query_arrays(old, ids) == Queried(ids)

\* faulty variant: an object queried before hands out the buffers it already holds
to_query_cached(w, st) ==
    LET tys == st.work[w].np_types
        n == Len(tys)
        old == st.work[w].query_arrays
        ids == IF old.isNone THEN Tabulate(n, LAMBDA i : st.next_id + i - 1) ELSE old.ids
        fresh == [id \in {ids[i] : i \in 1..n} \ DOMAIN st.arrays |->
                    np_zeros(1, tys[CHOOSE i \in 1..n : ids[i] = id])]
    IN  [raised |-> FALSE,
         ret |-> PyList(Tabulate(n, LAMBDA i : PyList(<<NdArray(ids[i]), PyInt(-1)>>))),
         st |-> [work |-> [st.work EXCEPT ![w].query_arrays = Queried(ids)],
                 arrays |-> fresh @@ st.arrays,
                 next_id |-> IF old.isNone THEN st.next_id + n ELSE st.next_id]]

\* WorkArray.to_query: allocates one length-1 buffer per type, stores them on the
\* object and returns [[arr, -1], ...].
to_query(w, st) ==
    LET tys == st.work[w].np_types
        n == Len(tys)
        ids == Tabulate(n, LAMBDA i : st.next_id + i - 1)
        fresh == [id \in {ids[i] : i \in 1..n} |->
                    np_zeros(1, tys[CHOOSE i \in 1..n : ids[i] = id])]
    IN  [raised |-> FALSE,
         ret |-> PyList(Tabulate(n, LAMBDA i : PyList(<<NdArray(ids[i]), PyInt(-1)>>))),
         st |-> [work |-> [st.work EXCEPT ![w].query_arrays =
                              stored_query_arrays(st.work[w].query_arrays, ids)],
                 arrays |-> fresh @@ st.arrays,
                 next_id |-> st.next_id + n]]

\* faulty variant: the guard is missing
not_yet_queried_unchecked(q) == FALSE

\* the guard of to_compute, line 284
not_yet_queried(q) == q.isNone

\* faulty variant: the query buffers themselves are handed out as work buffers
to_compute_query_buffers(w, st) ==
    LET q == st.work[w].query_arrays
        wlens == Tabulate(Len(q.ids), LAMBDA i : wlen_of(st.arrays[q.ids[i]]))
    IN  IF not_yet_queried(q)
        THEN [raised |-> TRUE, ret |-> PyNone, st |-> st]
        ELSE [raised |-> FALSE,
              ret |-> PyList(Tabulate(Len(q.ids), LAMBDA i :
                                PyList(<<NdArray(q.ids[i]), PyInt(wlens[i])>>))),
              st |-> st]

\* WorkArray.to_compute: raises when no query was made; else reads each query
\* buffer's element 0 and returns [[np.zeros(wlen), wlen], ...].
to_compute(w, st) ==
    LET q == st.work[w].query_arrays
        tys == st.work[w].np_types
        wlens == Tabulate(Len(q.ids), LAMBDA i : wlen_of(st.arrays[q.ids[i]]))
        n == IF Len(wlens) < Len(tys) THEN Len(wlens) ELSE Len(tys)   \* zip
        ids == Tabulate(n, LAMBDA i : st.next_id + i - 1)
        fresh == [id \in {ids[i] : i \in 1..n} |->
                    LET i == CHOOSE j \in 1..n : ids[j] = id
                    IN  np_zeros(wlens[i], tys[i])]
    IN  IF not_yet_queried(q)
        THEN [raised |-> TRUE, ret |-> PyNone, st |-> st]
        ELSE [raised |-> FALSE,
              ret |-> PyList(Tabulate(n, LAMBDA i :
                                PyList(<<NdArray(ids[i]), PyInt(wlens[i])>>))),
              st |-> [work |-> st.work,
                      arrays |-> fresh @@ st.arrays,
                      next_id |-> st.next_id + n]]

\* _expand_work: left to right, each WorkArray replaced by to_query() or
\* to_compute(); an exception of to_compute ends the walk.
RECURSIVE _expand_work(_, _, _)
_expand_work(args, query, st) ==
    IF args = <<>> THEN [raised |-> FALSE, exp_args |-> <<>>, st |-> st]
    ELSE LET arg == Head(args)
             r == IF arg.kind = "WorkArray"
                  THEN (IF query THEN to_query(arg.v, st) ELSE to_compute(arg.v, st))
                  ELSE [raised |-> FALSE, ret |-> arg, st |-> st]
             rest == _expand_work(Tail(args), query, r.st)
         IN  IF r.raised THEN [raised |-> TRUE, exp_args |-> <<>>, st |-> r.st]
             ELSE [raised |-> rest.raised,
                   exp_args |-> IF rest.raised THEN <<>> ELSE <<r.ret>> \o rest.exp_args,
                   st |-> rest.st]

\* Buffers nothing refers to any more are freed (reference counting): the live
\* ones are those some WorkArray keeps in query_arrays.
Collect(wk, arrs) ==
    LET kept == UNION {{wk[w].query_arrays.ids[i] : i \in 1..Len(wk[w].query_arrays.ids)} :
                          w \in DOMAIN wk}
    IN  [id \in (DOMAIN arrs) \cap kept |-> arrs[id]]

\* ------------------------------------------------------------ the native side
\* The buffers of a flat argument list np.zeros allocated here.
BuffersIn(flat, arrs) ==
    {flat[i].v : i \in {j \in 1..Len(flat) : flat[j].kind = "ndarray" /\ flat[j].v \in DOMAIN arrs}}

\* ScaLAPACK's workspace query: a work array passed with length -1 receives the
\* required length in its first element.
QueryTargets(flat, arrs) ==
    {flat[i].v : i \in {j \in 1..(Len(flat) - 1) :
        /\ flat[j].kind = "ndarray" /\ flat[j].v \in DOMAIN arrs
        /\ arrs[flat[j].v].len >= 1
        /\ flat[j + 1] = PyInt(-1)}}

\* What one native call can leave in memory: any length in each queried buffer,
\* stored as WORK(1) = lwmin (imaginary part 0 in a complex work array).
NativeWrites(flat, arrs) ==
    LET T == QueryTargets(flat, arrs)
    IN  {[id \in DOMAIN arrs |->
            IF id \in T THEN [arrs[id] EXCEPT !.re = re[id], !.im = 0] ELSE arrs[id]] :
         re \in [T -> WLens]}

\* The record kept of one native call: its flat arguments, the status it
\* returned and the buffers it was handed as it left them.
CallRecord(phase, flat, rv, arrs) ==
    [phase |-> phase, flat |-> flat, rv |-> rv,
     mem |-> [id \in BuffersIn(flat, arrs) |-> arrs[id]]]

\* -------------------------------------------------------------------- state
NoFrame == [exp_args |-> <<>>, pending |-> <<>>]
NoInv ==
    [status |-> "none", expand |-> TRUE, args |-> <<>>, start_id |-> 0,
     pre_work |-> [w \in WorkIds |-> NoObject], pre_arrays |-> <<>>,
     calls |-> <<>>, result |-> PyNone, error |-> ""]
NoOp ==
    [name |-> "none", w |-> 0, raised |-> FALSE, ret |-> PyNone,
     pre |-> NoObject, pre_arrays |-> <<>>, start_id |-> 0, mem |-> <<>>]

Init ==
    /\ expand_args = TRUE
    /\ work = [w \in WorkIds |-> NoObject]
    /\ arrays = <<>>
    /\ next_id = 1
    /\ pc = "idle"
    /\ frame = NoFrame
    /\ inv = NoInv
    /\ op = NoOp

\* buffers an expansion of args allocates at most: a query and a compute buffer
\* per typecode of each WorkArray position
RECURSIVE AllocNeed(_)
AllocNeed(args) ==
    IF args = <<>> THEN 0
    ELSE (IF Head(args).kind = "WorkArray" THEN 2 * Len(work[Head(args).v].types) ELSE 0)
         + AllocNeed(Tail(args))

\* typecodes held by the WorkArrays made so far
RECURSIVE TypesOf(_)
TypesOf(ws) ==
    IF ws = {} THEN 0
    ELSE LET w == CHOOSE x \in ws : TRUE IN Len(work[w].types) + TypesOf(ws \ {w})
TypesInUse == TypesOf(WorkIds)

\* ------------------------------------------------------------------ actions
\* lowlevel.expand_args = b
set_expand_args(b) ==
    /\ pc = "idle"
    /\ expand_args' = b
    /\ UNCHANGED <<work, arrays, next_id, pc, frame, inv, op>>

\* w = WorkArray(*types)
WorkArray_init(w, types) ==
    /\ pc = "idle"
    /\ ~work[w].alive
    /\ \A x \in WorkIds : x < w => work[x].alive      \* objects are made in order
    /\ Len(types) + TypesInUse <= MaxTypes
    /\ work' = [work EXCEPT ![w] = WorkArray(types)]
    /\ UNCHANGED <<expand_args, arrays, next_id, pc, frame, inv, op>>

\* w.to_query() called by the user
call_to_query(w) ==
    /\ pc = "idle"
    /\ work[w].alive
    /\ next_id + Len(work[w].types) <= MaxAlloc + 1
    /\ LET r == to_query(w, [work |-> work, arrays |-> arrays, next_id |-> next_id])
       IN  /\ work' = r.st.work
           /\ arrays' = Collect(r.st.work, r.st.arrays)
           /\ next_id' = r.st.next_id
           /\ op' = [name |-> "to_query", w |-> w, raised |-> FALSE, ret |-> r.ret,
                     pre |-> work[w], pre_arrays |-> arrays, start_id |-> next_id,
                     mem |-> [id \in BuffersIn(flatten(<<r.ret>>), r.st.arrays) |->
                                r.st.arrays[id]]]
    /\ pc' = "done"
    /\ UNCHANGED <<expand_args, frame, inv>>

\* w.to_compute() called by the user
call_to_compute(w) ==
    /\ pc = "idle"
    /\ work[w].alive
    /\ next_id + Len(work[w].types) <= MaxAlloc + 1
    /\ LET r == to_compute(w, [work |-> work, arrays |-> arrays, next_id |-> next_id])
       IN  /\ work' = r.st.work
           /\ arrays' = Collect(r.st.work, r.st.arrays)
           /\ next_id' = r.st.next_id
           /\ op' = [name |-> "to_compute", w |-> w, raised |-> r.raised, ret |-> r.ret,
                     pre |-> work[w], pre_arrays |-> arrays, start_id |-> next_id,
                     mem |-> [id \in BuffersIn(flatten(<<r.ret>>), r.st.arrays) |->
                                r.st.arrays[id]]]
    /\ pc' = "done"
    /\ UNCHANGED <<expand_args, frame, inv>>

\* The call in flight ends with an exception; rec is its record so far.
Raise(rec, err, st) ==
    /\ inv' = [rec EXCEPT !.status = "raised", !.error = err]
    /\ pc' = "done"
    /\ frame' = NoFrame
    /\ work' = st.work
    /\ arrays' = Collect(st.work, st.arrays)
    /\ next_id' = st.next_id

\* The call in flight returns result to its caller; its locals die.
Return(rec, result) ==
    /\ inv' = [rec EXCEPT !.status = "returned", !.result = result]
    /\ pc' = "done"
    /\ frame' = NoFrame
    /\ arrays' = Collect(work, arrays)
    /\ UNCHANGED <<work, next_id>>

\* The call in flight reaches routine(*util.flatten(x_args)).
Enter(rec, phase, x_args, exp_args, st) ==
    /\ inv' = rec
    /\ pc' = phase
    /\ frame' = [exp_args |-> exp_args, pending |-> flatten(x_args)]
    /\ work' = st.work
    /\ arrays' = st.arrays
    /\ next_id' = st.next_id

\* faulty variant: the toggle is ignored
wrapper_expands_always(toggle) == TRUE

\* faulty variant: the wrapper keeps the value the toggle had when it was
\* created, which is the True of line 144
wrapper_expands_at_creation(toggle) == TRUE

\* does wrapper take the expanding branch (line 211)
wrapper_expands(toggle) == toggle

\* faulty variant: the compute call is built from the caller's list
compute_source_unexpanded(args, exp_args) == args

\* the list _expand_work(..., query=False) walks (line 199): exp_args, the one
\* list the query expansion walked too
compute_source(args, exp_args) == exp_args

\* faulty variant: the WorkArrays are queried before the strings are encoded
_call_routine_work_first(args, rec) ==
    LET st == [work |-> work, arrays |-> arrays, next_id |-> next_id]
        dm_args == _expand_dm(args)
        wq == _expand_work(dm_args, TRUE, st)
        wc == _expand_work(dm_args, FALSE, st)
        enc == IF need_workquery(args) THEN wq ELSE wc
    IN  IF _encode_strings_raises(dm_args) THEN Raise(rec, "UnicodeEncodeError", enc.st)
        ELSE IF need_workquery(args)
             THEN Enter(rec, "query", _encode_strings(wq.exp_args),
                        _encode_strings(dm_args), wq.st)
        ELSE Enter(rec, "compute", _encode_strings(wc.exp_args),
                   _encode_strings(dm_args), wc.st)

\* _call_routine from its first line to its first native call
_call_routine(args, rec) ==
    LET st == [work |-> work, arrays |-> arrays, next_id |-> next_id]
        dm_args == _expand_dm(args)
        exp_args == _encode_strings(dm_args)
        wq == _expand_work(exp_args, TRUE, st)
        wc == _expand_work(compute_source(args, exp_args), FALSE, st)
    IN  IF _encode_strings_raises(dm_args) THEN Raise(rec, "UnicodeEncodeError", st)
        ELSE IF need_workquery(args) THEN Enter(rec, "query", wq.exp_args, exp_args, wq.st)
        ELSE IF wc.raised THEN Raise(rec, "Exception", wc.st)
        ELSE Enter(rec, "compute", wc.exp_args, exp_args, wc.st)

\* wrapper(*args): a call of a wrapped routine, up to its first native call
wrapper(args) ==
    /\ pc = "idle"
    /\ \A i \in 1..Len(args) : args[i].kind = "WorkArray" => work[args[i].v].alive
    /\ next_id + AllocNeed(args) <= MaxAlloc + 1
    /\ LET rec == [status |-> "running", expand |-> expand_args, args |-> args,
                   start_id |-> next_id, pre_work |-> work, pre_arrays |-> arrays,
                   calls |-> <<>>,
                   result |-> PyNone, error |-> ""]
       IN  IF wrapper_expands(expand_args)
           THEN _call_routine(args, rec)
           ELSE Enter(rec, "raw", args, <<>>,
                      [work |-> work, arrays |-> arrays, next_id |-> next_id])
    /\ UNCHANGED <<expand_args, op>>

\* faulty variant: the status of the first native call is returned
_call_routine_result_first(calls) == PyInt(calls[1].rv)

\* what _call_routine returns: rv of the last native call (lines 200-202)
_call_routine_result(calls) == PyInt(calls[Len(calls)].rv)

\* what wrapper returns in raw mode: line 214 has no return statement
wrapper_raw_result(calls) == PyNone

\* The query call returns rv, the native routine having written mem; then
\* _call_routine goes on to its second native call (lines 196-200).
routine_query(rv, mem) ==
    /\ pc = "query"
    /\ LET rec == [inv EXCEPT !.calls = Append(@, CallRecord("query", frame.pending, rv, mem))]
           wc == _expand_work(compute_source(inv.args, frame.exp_args), FALSE,
                              [work |-> work, arrays |-> mem, next_id |-> next_id])
       IN  IF wc.raised THEN Raise(rec, "Exception", wc.st)
           ELSE Enter(rec, "compute", wc.exp_args, frame.exp_args, wc.st)
    /\ UNCHANGED <<expand_args, op>>

\* The compute call returns rv; _call_routine and wrapper return (lines 200-202, 212).
routine_compute(rv, mem) ==
    /\ pc = "compute"
    /\ LET calls == Append(inv.calls, CallRecord("compute", frame.pending, rv, mem))
       IN  Return([inv EXCEPT !.calls = calls], _call_routine_result(calls))
    /\ UNCHANGED <<expand_args, op>>

\* The only call of raw mode returns rv; wrapper ends (line 214).
routine_raw(rv, mem) ==
    /\ pc = "raw"
    /\ LET calls == Append(inv.calls, CallRecord("raw", frame.pending, rv, mem))
       IN  Return([inv EXCEPT !.calls = calls], wrapper_raw_result(calls))
    /\ UNCHANGED <<expand_args, op>>

\* The caller has its result (or exception) and goes on to its next statement.
next_statement ==
    /\ pc = "done"
    /\ pc' = "idle"
    /\ inv' = NoInv
    /\ op' = NoOp
    /\ UNCHANGED <<expand_args, work, arrays, next_id, frame>>

Next ==
    \/ \E b \in BOOLEAN : set_expand_args(b)
    \/ \E w \in WorkIds, types \in TypeLists : WorkArray_init(w, types)
    \/ \E w \in WorkIds : call_to_query(w)
    \/ \E w \in WorkIds : call_to_compute(w)
    \/ \E args \in ArgLists : wrapper(args)
    \/ \E rv \in InfoCodes, mem \in NativeWrites(frame.pending, arrays) : routine_query(rv, mem)
    \/ \E rv \in InfoCodes, mem \in NativeWrites(frame.pending, arrays) : routine_compute(rv, mem)
    \/ \E rv \in InfoCodes, mem \in NativeWrites(frame.pending, arrays) : routine_raw(rv, mem)
    \/ next_statement

Spec == Init /\ [][Next]_vars

\* ================================================================ properties
\* The wrapper call whose record inv holds has ended, by return or by exception.
Returned == pc = "done" /\ inv.status = "returned"
Raised == pc = "done" /\ inv.status = "raised"

\* positions of the logical list holding a WorkArray
WorkPositions(args) == {k \in 1..Len(args) : args[k].kind = "WorkArray"}

\* typecodes of the WorkArray at position k (they never change after __init__)
TypesAt(args, k) == inv.pre_work[args[k].v].types

\* flat entries the argument at position k stands for after expansion
Width(args, k) ==
    CASE args[k].kind = "DistributedMatrix" -> 4
      [] args[k].kind = "WorkArray" -> 2 * Len(TypesAt(args, k))
      [] OTHER -> 1

\* flat entries before those of position k
RECURSIVE Offset(_, _)
Offset(args, k) == IF k <= 1 THEN 0 ELSE Offset(args, k - 1) + Width(args, k - 1)

FlatLen(args) == Offset(args, Len(args) + 1)

\* A flat list keeps every argument that is neither a WorkArray nor a text nor a
\* distributed matrix unchanged at its place, has the bytes of each text at its
\* place, and the four entries of each distributed matrix at its place.
PlainPlaces(args, flat) ==
    /\ Len(flat) = FlatLen(args)
    /\ \A k \in 1..Len(args) :
        LET o == Offset(args, k)
        IN  CASE args[k].kind = "DistributedMatrix" ->
                    /\ flat[o + 1] = NdArray(0 - (1 + args[k].v))
                    /\ flat[o + 2] = PyInt(1)
                    /\ flat[o + 3] = PyInt(1)
                    /\ flat[o + 4] = Desc(args[k].v)
              [] args[k].kind = "str" ->
                    /\ flat[o + 1].kind = "bytes"
                    /\ flat[o + 1].s = args[k].s
              [] args[k].kind = "WorkArray" -> TRUE
              [] OTHER -> flat[o + 1] = args[k]

\* C1: with expansion on, a call whose logical list holds no WorkArray and that
\* returns has made exactly one native call, and that call's flat list is the
\* logical list with each distributed matrix replaced by its four entries and
\* each text by its bytes, everything else unchanged and in the caller's order.
C1_OneCallNoWorkArray ==
    (Returned /\ inv.expand /\ WorkPositions(inv.args) = {}) =>
        /\ Len(inv.calls) = 1
        /\ PlainPlaces(inv.args, inv.calls[1].flat)

C1_Witness ==
    /\ Returned /\ inv.expand /\ WorkPositions(inv.args) = {}
    /\ \E i, j \in 1..Len(inv.args) :
        inv.args[i].kind = "DistributedMatrix" /\ inv.args[j].kind = "str"

\* The n pairs of the WorkArray at position k in the query call: length-1
\* buffers of the dtypes of its typecodes, each followed by -1.
QueryPairsAt(args, k, call) ==
    LET o == Offset(args, k)
        T == TypesAt(args, k)
    IN  \A i \in 1..Len(T) :
            LET b == call.flat[o + 2 * i - 1]
            IN  /\ b.kind = "ndarray"
                /\ b.v \in DOMAIN call.mem
                /\ call.mem[b.v].len = 1
                /\ call.mem[b.v].dtype = _typemap[T[i]]
                /\ call.flat[o + 2 * i] = PyInt(-1)

\* The n pairs of the WorkArray at position k in the compute call: the length
\* is what the query call left in the query buffer at the same place, and the
\* buffer has that length and the dtype of the typecode.
ComputePairsAt(args, k, qcall, ccall) ==
    LET o == Offset(args, k)
        T == TypesAt(args, k)
    IN  \A i \in 1..Len(T) :
            LET q == qcall.flat[o + 2 * i - 1]
                b == ccall.flat[o + 2 * i - 1]
                wlen == qcall.mem[q.v].re
            IN  /\ b.kind = "ndarray"
                /\ b.v \in DOMAIN ccall.mem
                /\ ccall.flat[o + 2 * i] = PyInt(wlen)
                /\ ccall.mem[b.v].len = wlen
                /\ ccall.mem[b.v].dtype = _typemap[T[i]]

\* C2: with expansion on, a call whose logical list holds exactly one WorkArray
\* and that returns has made exactly two native calls, the query first; the
\* query call got n pairs [length-1 buffer typed per Ti, -1] and the compute call
\* n pairs [buffer, length], length being what the native routine wrote into the
\* matching query buffer and the buffer having that length and type.
C2_QueryThenCompute ==
    (Returned /\ inv.expand /\ Cardinality(WorkPositions(inv.args)) = 1) =>
        LET k == CHOOSE x \in WorkPositions(inv.args) : TRUE
        IN  /\ Len(inv.calls) = 2
            /\ inv.calls[1].phase = "query"
            /\ inv.calls[2].phase = "compute"
            /\ Len(inv.calls[1].flat) = FlatLen(inv.args)
            /\ Len(inv.calls[2].flat) = FlatLen(inv.args)
            /\ QueryPairsAt(inv.args, k, inv.calls[1])
            /\ ComputePairsAt(inv.args, k, inv.calls[1], inv.calls[2])

C2_Witness ==
    /\ Returned /\ inv.expand /\ Cardinality(WorkPositions(inv.args)) = 1
    /\ \E k \in WorkPositions(inv.args) :
        /\ TypesAt(inv.args, k) = <<"Z", "D">>
        /\ inv.calls[2].flat[Offset(inv.args, k) + 2] = PyInt(1)
        /\ inv.calls[2].flat[Offset(inv.args, k) + 4] = PyInt(0)

\* C3 (as claimed): with expansion on, a call whose logical list holds
\* WorkArrays at two or more positions and that returns has made exactly two
\* native calls, and at every such position the lengths of the compute call are
\* the values the native routine wrote into the query buffers passed at that
\* same position.
C3_EachPositionItsOwnQuery ==
    (Returned /\ inv.expand /\ Cardinality(WorkPositions(inv.args)) >= 2) =>
        /\ Len(inv.calls) = 2
        /\ inv.calls[1].phase = "query"
        /\ inv.calls[2].phase = "compute"
        /\ \A k \in WorkPositions(inv.args) :
            /\ QueryPairsAt(inv.args, k, inv.calls[1])
            /\ ComputePairsAt(inv.args, k, inv.calls[1], inv.calls[2])

\* the WorkArray object at position k stands at no other position of the list
SoleUse(args, k) == \A j \in WorkPositions(args) : j # k => args[j].v # args[k].v

\* C3 (amended): with expansion on, a call whose logical list holds WorkArrays
\* at two or more positions and that returns has made exactly two native calls,
\* one query and one compute; every such position got its own length-1 query
\* buffers, and at every position whose WorkArray object stands at no other
\* position the lengths of the compute call are the values the native routine
\* wrote into the query buffers passed at that same position.
C3_SoleObjectItsOwnQuery ==
    (Returned /\ inv.expand /\ Cardinality(WorkPositions(inv.args)) >= 2) =>
        /\ Len(inv.calls) = 2
        /\ inv.calls[1].phase = "query"
        /\ inv.calls[2].phase = "compute"
        /\ \A k \in WorkPositions(inv.args) :
            /\ QueryPairsAt(inv.args, k, inv.calls[1])
            /\ SoleUse(inv.args, k) =>
                  ComputePairsAt(inv.args, k, inv.calls[1], inv.calls[2])

C3_Witness ==
    /\ Returned /\ inv.expand /\ Len(inv.args) = 2
    /\ inv.args[1].kind = "WorkArray" /\ inv.args[2].kind = "WorkArray"
    /\ inv.args[1].v # inv.args[2].v
    /\ Len(inv.calls) = 2 /\ Len(inv.calls[2].flat) = 4
    /\ inv.calls[2].flat[2] = PyInt(0)
    /\ inv.calls[2].flat[4] = PyInt(1)

\* C4: with expansion on, the value a call returns is the status code of its
\* compute call; once the query call has returned, with whatever status code,
\* the compute call is issued, and a query status that differs from the compute
\* status is not the result.
C4_ResultIsComputeStatus ==
    /\ (Returned /\ inv.expand) =>
        /\ inv.calls[Len(inv.calls)].phase = "compute"
        /\ inv.result = PyInt(inv.calls[Len(inv.calls)].rv)
        /\ (Len(inv.calls) = 2 /\ inv.calls[1].rv # inv.calls[2].rv) =>
              inv.result # PyInt(inv.calls[1].rv)
    /\ (inv.status = "running" /\ inv.expand /\ Len(inv.calls) = 1) =>
        /\ inv.calls[1].phase = "query"
        /\ pc = "compute"

C4_Witness ==
    /\ Returned /\ inv.expand /\ Len(inv.calls) = 2
    /\ inv.calls[1].rv = 1
    /\ inv.calls[2].rv = 0
    /\ inv.result = PyInt(0)

\* C5: whatever the toggle, a wrapper call that returns gives its caller the
\* status code of the last native call it made.
C5_WrapperReturnsStatus ==
    Returned => inv.result = PyInt(inv.calls[Len(inv.calls)].rv)

\* C6: with the toggle off, a wrapper call makes exactly one native call, whose
\* flat list is the logical list as given (nothing expanded, nothing encoded, no
\* query), and every WorkArray is left as it was before the call.
C6_RawModeForwards ==
    /\ (Returned /\ ~inv.expand) =>
        /\ Len(inv.calls) = 1
        /\ inv.calls[1].flat = inv.args
        /\ work = inv.pre_work
    /\ (inv.status = "running" /\ ~inv.expand) =>
        /\ pc = "raw"
        /\ inv.calls = <<>>
        /\ frame.pending = inv.args
        /\ work = inv.pre_work
    /\ ~(Raised /\ ~inv.expand)

C6_Witness ==
    /\ Returned /\ ~inv.expand
    /\ \E i, j \in 1..Len(inv.args) :
        /\ inv.args[i].kind = "WorkArray"
        /\ Len(TypesAt(inv.args, i)) > 0
        /\ inv.args[j] = PyStr(<<233>>)

\* C7: a wrapper call that ends by raising has made no native call.
C7_ErrorsBeforeNativeCalls ==
    Raised => inv.calls = <<>>

C7_Witness ==
    /\ Raised
    /\ inv.error = "UnicodeEncodeError"
    /\ \E k \in WorkPositions(inv.args) : Len(TypesAt(inv.args, k)) > 0

\* C8: to_compute on a WorkArray that was never queried raises, whatever the
\* typecodes (none included), returns nothing, allocates nothing and leaves
\* the WorkArray unqueried.
C8_ComputeBeforeQueryFails ==
    (pc = "done" /\ op.name = "to_compute" /\ op.pre.query_arrays = Unqueried) =>
        /\ op.raised
        /\ op.ret = PyNone
        /\ next_id = op.start_id
        /\ work[op.w] = op.pre

C8_Witness ==
    /\ pc = "done" /\ op.name = "to_compute" /\ op.raised
    /\ op.pre.types = <<>>

\* C9: with expansion on, in every native call (query and compute alike) a
\* distributed matrix at position k of the logical list stands as the four
\* entries (local buffer, 1, 1, descriptor) at the place of position k, and the
\* other arguments stand in the caller's order before and after it.
C9_MatrixExpandsInPlace ==
    inv.expand =>
        \A c \in 1..Len(inv.calls) : PlainPlaces(inv.args, inv.calls[c].flat)

C9_Witness ==
    /\ Returned /\ inv.expand /\ Len(inv.calls) = 2
    /\ Len(inv.args) = 2
    /\ inv.args[1].kind = "WorkArray" /\ Len(TypesAt(inv.args, 1)) = 2
    /\ inv.args[2].kind = "DistributedMatrix"

\* some text of the list has a code point outside ASCII
HasNonAscii(args) ==
    \E k \in 1..Len(args) :
        args[k].kind = "str" /\ \E i \in 1..Len(args[k].s) : args[k].s[i] > 127

\* C10: with expansion on, no flat argument of a native call is a text: each
\* text stands as its bytes, one per character, every argument that is not a
\* text, a matrix or a WorkArray stands unchanged, and a call given a text with
\* a non-ASCII character makes no native call and fails with the encoding error.
C10_TextEncodedOrRejected ==
    inv.expand =>
        /\ \A c \in 1..Len(inv.calls) :
            /\ \A i \in 1..Len(inv.calls[c].flat) : inv.calls[c].flat[i].kind # "str"
            /\ \A k \in 1..Len(inv.args) :
                LET f == inv.calls[c].flat[Offset(inv.args, k) + 1]
                IN  /\ inv.args[k].kind = "str" => f = PyBytes(inv.args[k].s)
                    /\ inv.args[k].kind = "int" => f = inv.args[k]
        /\ (inv.status # "none" /\ HasNonAscii(inv.args)) =>
            /\ Raised
            /\ inv.error = "UnicodeEncodeError"
            /\ inv.calls = <<>>

C10_Witness ==
    /\ Returned /\ inv.expand /\ Len(inv.calls) = 2
    /\ \E k \in 1..Len(inv.args) : inv.args[k] = PyStr(<<86>>)

\* ------------------------------------------------------------------- C11
\* The buffers np.zeros allocated that some WorkArray object holds.
Held ==
    UNION {{work[w].query_arrays.ids[i] : i \in 1..Len(work[w].query_arrays.ids)} :
              w \in WorkIds}

\* The buffers np.zeros allocated that call c of the logged invocation was handed.
AllocatedIn(c) ==
    {inv.calls[c].flat[i].v : i \in {j \in 1..Len(inv.calls[c].flat) :
        inv.calls[c].flat[j].kind = "ndarray" /\ inv.calls[c].flat[j].v >= 1}}

\* Every buffer np.zeros allocated that a native call of the logged invocation
\* was handed was allocated during this invocation: ids are given out in
\* increasing order, so no earlier invocation can have passed it.
NoBufferFromEarlierInvocation ==
    \A c \in 1..Len(inv.calls) : \A id \in AllocatedIn(c) : id >= inv.start_id

\* C11 as stated: once an invocation has returned, no WorkArray still holds a
\* buffer allocated during it, and no buffer passed to a native call in one
\* invocation is passed to a native call of a later invocation.
C11_NoBufferOutlivesItsCall ==
    Returned =>
        /\ \A id \in Held : id < inv.start_id
        /\ NoBufferFromEarlierInvocation

\* C11, amended: once an invocation has returned, the buffers allocated during
\* it that a WorkArray still holds are exactly the length-1 query buffers of the
\* WorkArrays of its argument list, which to_query stored on the objects; the
\* materialized work buffers are held by no WorkArray; and no allocated buffer
\* passed to a native call in one invocation is passed to a native call of a
\* later invocation.
C11_OnlyQueryBuffersOutlive ==
    Returned =>
        /\ \A id \in Held : id >= inv.start_id =>
              /\ arrays[id].len = 1
              /\ inv.calls[1].phase = "query" /\ id \in AllocatedIn(1)
              /\ \E k \in WorkPositions(inv.args) :
                    \E i \in 1..Len(work[inv.args[k].v].query_arrays.ids) :
                        work[inv.args[k].v].query_arrays.ids[i] = id
        /\ \A c \in 1..Len(inv.calls) :
              inv.calls[c].phase = "compute" => AllocatedIn(c) \cap Held = {}
        /\ \A id \in inv.start_id..(next_id - 1) :
              id \in Held \/ (Len(inv.calls) = 2 /\ id \in AllocatedIn(1) \cup AllocatedIn(2))
        /\ NoBufferFromEarlierInvocation

\* A returned invocation reused a WorkArray that an earlier invocation had
\* queried; the object now holds query buffers of this invocation, and the
\* compute call was handed a work buffer.
C11_Witness ==
    /\ Returned /\ inv.expand /\ Len(inv.calls) = 2
    /\ \E k \in WorkPositions(inv.args) :
          /\ ~inv.pre_work[inv.args[k].v].query_arrays.isNone
          /\ Len(inv.pre_work[inv.args[k].v].query_arrays.ids) >= 1
          /\ \E id \in Held : id >= inv.start_id
    /\ AllocatedIn(2) # {}

\* ------------------------------------------------------------------- C12
\* The logged statement was w.to_compute() on an object that had been queried.
MaterializedQueried ==
    pc = "done" /\ op.name = "to_compute" /\ ~op.pre.query_arrays.isNone

\* C12: to_compute on a queried WorkArray returns one [buffer, length] pair per
\* type tag whose buffers are allocated by this very call (so they are neither
\* the query buffers nor buffers of an earlier materialization), whose lengths
\* are read from the query buffers alone (so they repeat as long as those are
\* not rewritten), and it leaves the object's type tags, its query buffers and
\* their contents as they were.
C12_MaterializationFreshAndPure ==
    MaterializedQueried =>
        LET q == op.pre.query_arrays.ids
            pairs == op.ret.items
        IN  /\ ~op.raised
            /\ op.ret.kind = "list" /\ Len(pairs) = Len(op.pre.types)
            /\ \A i \in 1..Len(pairs) :
                  /\ pairs[i].kind = "list" /\ Len(pairs[i].items) = 2
                  /\ pairs[i].items[1].kind = "ndarray"
                  /\ pairs[i].items[1].v >= op.start_id
                  /\ pairs[i].items[1].v < next_id
                  /\ \A j \in 1..Len(q) : pairs[i].items[1].v # q[j]
                  /\ \A j \in 1..Len(pairs) :
                        j # i => pairs[j].items[1].v # pairs[i].items[1].v
                  /\ pairs[i].items[2] = PyInt(op.pre_arrays[q[i]].re)
                  /\ op.mem[pairs[i].items[1].v].len = op.pre_arrays[q[i]].re
                  /\ op.mem[pairs[i].items[1].v].dtype = op.pre.np_types[i]
            /\ work[op.w] = op.pre
            /\ \A j \in 1..Len(q) : arrays[q[j]] = op.pre_arrays[q[j]]

\* to_compute has returned a work buffer of length 1 for an object whose query
\* buffer a native routine had filled, after an earlier materialization of the
\* same query (the buffer allocated between the query and this call).
C12_Witness ==
    /\ MaterializedQueried /\ ~op.raised
    /\ Len(op.ret.items) >= 1
    /\ op.ret.items[1].items[2] = PyInt(1)
    /\ op.start_id > op.pre.query_arrays.ids[1] + Len(op.pre.types)

\* ------------------------------------------------------------------- C13
\* C13: in every returned invocation with expansion on, each WorkArray of the
\* list holds afterwards query buffers allocated by this invocation and passed
\* in its query call, none of the query buffers it held before is held any
\* more, and each length passed in the compute call is the value this
\* invocation's query call left in the object's query buffer.
C13_LengthsFromOwnQuery ==
    (Returned /\ inv.expand) =>
        \A k \in WorkPositions(inv.args) :
            LET w == inv.args[k].v
                q == work[w].query_arrays.ids
                old == inv.pre_work[w].query_arrays.ids
                o == Offset(inv.args, k)
            IN  /\ Len(inv.calls) = 2
                /\ inv.calls[1].phase = "query" /\ inv.calls[2].phase = "compute"
                /\ ~work[w].query_arrays.isNone
                /\ Len(q) = Len(TypesAt(inv.args, k))
                /\ \A j \in 1..Len(old) : old[j] \notin Held
                /\ \A i \in 1..Len(q) :
                      /\ q[i] >= inv.start_id
                      /\ q[i] \in AllocatedIn(1)
                      /\ q[i] \in DOMAIN inv.calls[1].mem
                      /\ inv.calls[2].flat[o + 2 * i] = PyInt(inv.calls[1].mem[q[i]].re)

\* A returned invocation reused a WorkArray queried by an earlier invocation,
\* and the length its compute call passed differs from the one the earlier
\* query had left in the object.
C13_Witness ==
    /\ Returned /\ inv.expand /\ Len(inv.calls) = 2
    /\ \E k \in WorkPositions(inv.args) :
          LET old == inv.pre_work[inv.args[k].v].query_arrays.ids
          IN  /\ Len(old) >= 1
              /\ old[1] \in DOMAIN inv.pre_arrays
              /\ inv.calls[2].flat[Offset(inv.args, k) + 2] # PyInt(inv.pre_arrays[old[1]].re)

\* ------------------------------------------------------------------- C14
\* Flat index i lies in the entries of a WorkArray position of the logical list.
InWorkspace(args, i) ==
    \E k \in WorkPositions(args) :
        Offset(args, k) < i /\ i <= Offset(args, k) + Width(args, k)

\* C14: when an invocation has made a query call and a compute call, the two
\* flat lists have the same length; outside the entries of the WorkArray
\* positions they hold the same value at every index; inside, both hold a
\* buffer at the odd places and a length at the even ones, the buffers being
\* different ones and the length being -1 in the query call and a real length
\* in the compute call.
C14_QueryAndComputeAgree ==
    (inv.status # "none" /\ inv.expand /\ Len(inv.calls) = 2) =>
        LET f1 == inv.calls[1].flat
            f2 == inv.calls[2].flat
        IN  /\ inv.calls[1].phase = "query" /\ inv.calls[2].phase = "compute"
            /\ Len(f1) = Len(f2)
            /\ Len(f1) = FlatLen(inv.args)
            /\ \A i \in 1..Len(f1) : ~InWorkspace(inv.args, i) => f1[i] = f2[i]
            /\ \A k \in WorkPositions(inv.args) :
                  \A j \in 1..Len(TypesAt(inv.args, k)) :
                      LET o == Offset(inv.args, k)
                      IN  /\ f1[o + 2 * j - 1].kind = "ndarray"
                          /\ f2[o + 2 * j - 1].kind = "ndarray"
                          /\ f1[o + 2 * j - 1] # f2[o + 2 * j - 1]
                          /\ f1[o + 2 * j] = PyInt(-1)
                          /\ f2[o + 2 * j].kind = "int" /\ f2[o + 2 * j].v >= 0

\* Both calls of an invocation were made for a list holding a distributed
\* matrix and a WorkArray with a typecode: four shared entries, two that differ.
C14_Witness ==
    /\ Returned /\ inv.expand /\ Len(inv.calls) = 2
    /\ \E k \in WorkPositions(inv.args) : Len(TypesAt(inv.args, k)) >= 1
    /\ \E k \in 1..Len(inv.args) : inv.args[k].kind = "DistributedMatrix"
    /\ Len(inv.calls[2].flat) = 6

\* ------------------------------------------------------------------- C15
\* The logged invocation, made with expansion on, ended with the encoding error.
EncodingFailed ==
    Raised /\ inv.expand /\ inv.error = "UnicodeEncodeError"

\* C15: when an expanding invocation fails with the encoding error, every
\* WorkArray object is as it was before the invocation (unqueried ones still
\* unqueried, queried ones holding the same query buffers with the same
\* contents), nothing was allocated and no native call was made.
C15_EncodingErrorLeavesWorkArrays ==
    EncodingFailed =>
        /\ work = inv.pre_work
        /\ \A k \in WorkPositions(inv.args) :
              LET w == inv.args[k].v
              IN  /\ work[w].query_arrays = inv.pre_work[w].query_arrays
                  /\ \A j \in 1..Len(work[w].query_arrays.ids) :
                        /\ work[w].query_arrays.ids[j] \in DOMAIN arrays
                        /\ arrays[work[w].query_arrays.ids[j]] =
                              inv.pre_arrays[work[w].query_arrays.ids[j]]
        /\ arrays = inv.pre_arrays
        /\ next_id = inv.start_id
        /\ inv.calls = <<>>

\* The encoding error ended an invocation whose list holds a WorkArray that an
\* earlier invocation had queried and whose query buffer holds a length.
C15_Witness ==
    /\ EncodingFailed
    /\ \E k \in WorkPositions(inv.args) :
          LET q == inv.pre_work[inv.args[k].v].query_arrays
          IN  /\ ~q.isNone /\ Len(q.ids) >= 1
              /\ inv.pre_arrays[q.ids[1]].re = 1

\* The encoding error ended an invocation whose list holds a WorkArray that
\* had never been queried.
C15_WitnessUnqueried ==
    /\ EncodingFailed
    /\ \E k \in WorkPositions(inv.args) :
          /\ inv.pre_work[inv.args[k].v].query_arrays.isNone
          /\ Len(inv.pre_work[inv.args[k].v].types) >= 1

\* ------------------------------------------------------------------- C16
\* C16: during and after every wrapper call the toggle has the value it had
\* when the call began (the call does not change it), and that value decides
\* the call: with the toggle true every native call of it is a query or a
\* compute call and the last one gets the expanded list; with the toggle false
\* its only native call gets the caller's list as given.
C16_ToggleReadAtCall ==
    inv.status # "none" =>
        /\ inv.expand = expand_args
        /\ expand_args =>
              /\ pc \in {"query", "compute", "done"}
              /\ \A c \in 1..Len(inv.calls) : inv.calls[c].phase \in {"query", "compute"}
              /\ Returned => PlainPlaces(inv.args, inv.calls[Len(inv.calls)].flat)
        /\ ~expand_args =>
              /\ pc \in {"raw", "done"}
              /\ \A c \in 1..Len(inv.calls) : inv.calls[c].phase = "raw"
              /\ Returned => (Len(inv.calls) = 1 /\ inv.calls[1].flat = inv.args)

\* The toggle, True when the wrappers were created, was set to False and a call
\* made then handed a distributed matrix to the native routine unexpanded.
C16_Witness ==
    /\ Returned /\ ~expand_args
    /\ Len(inv.calls) = 1 /\ inv.calls[1].phase = "raw"
    /\ \E i \in 1..Len(inv.calls[1].flat) : inv.calls[1].flat[i].kind = "DistributedMatrix"

====
